---- MODULE Spec2Model ----
(***************************************************************************)
(* The indexing lambda of release/index: handler.js routes a batch of      *)
(* DynamoDB stream records to the per-type processors (Videos, Series,     *)
(* Articles, Events, Audio, Photos), each of which runs a promise chain    *)
(* against the ViewLift content API (shared/api) and the ElasticSearch     *)
(* gateway (shared/index), and aggregates the settled promises into one    *)
(* Lambda callback.                                                        *)
(*                                                                         *)
(* One action per callback of the code.  A request is answered and its     *)
(* response handled in one step: the engine applies a request at the       *)
(* moment it answers it, and the code between two awaits shares no state   *)
(* with the other pipelines.  The handler's processors are taken to be     *)
(* instances of the content classes (handler.js:37-42 binds the names it   *)
(* calls .index on to what require returns).                               *)
(***************************************************************************)
EXTENDS Integers, Sequences, FiniteSets, TLC

(* ---------------------------------------------------------------------- *)
(* Bounds                                                                  *)
(* ---------------------------------------------------------------------- *)
MaxBatch == 2
MaxFetches == 3

Sites == {"acme", "beta"}
Ids   == {"c1", "c2"}

(* ---------------------------------------------------------------------- *)
(* Inbound change events                                                   *)
(* ---------------------------------------------------------------------- *)
TableVideo   == "RELEASE.CONTENT.CONTENT_METADATA"
TableSeries  == "RELEASE.CONTENT.SERIES"
TableArticle == "RELEASE.CONTENT.ARTICLE"
TableEvent   == "RELEASE.CONTENT.EVENT"
TableAudio   == "RELEASE.CONTENT.AUDIO"
TablePhoto   == "RELEASE.CONTENT.PHOTOGALLERY"
TableOther   == "RELEASE.CONTENT.PAGE"

RecognizedTables ==
  {TableVideo, TableSeries, TableArticle, TableEvent, TableAudio, TablePhoto}
Tables == RecognizedTables \cup {TableOther}

EventNames == {"INSERT", "MODIFY", "REMOVE"}

NoImage == [absent |-> TRUE]

\* The fields of a change image the router reads: objectKey.S, contentType.S
\* and whether objectType is defined.
Images ==
  [absent : {FALSE},
   objectKey   : {[S |-> "video"], [S |-> "bundle"]},
   contentType : {[S |-> "EVENT"], [S |-> "AUDIO"], [S |-> "IMAGE"]},
   objectType  : BOOLEAN]

\* New and old image of one record: either may be missing; when both are
\* there they agree on objectKey and contentType, and a MODIFY may have set
\* or cleared objectType.
ImagePairs ==
  {p \in (Images \cup {NoImage}) \X (Images \cup {NoImage}) :
     \/ p[1] = NoImage
     \/ p[2] = NoImage
     \/ p[1].objectKey = p[2].objectKey /\ p[1].contentType = p[2].contentType}

\* eventSourceARN as its three parts: "arn:aws:dynamodb:<region>:<acct>:table/",
\* the table name, "/stream/<timestamp>".
Arn(table) == <<"arn:aws:dynamodb:us-east-1:1:table/", table, "/stream/2018">>

Records ==
  {[eventSourceARN |-> Arn(t),
    eventName      |-> e,
    dynamodb       |-> [Keys     |-> [site |-> [S |-> s], id |-> [S |-> i]],
                        NewImage |-> p[1],
                        OldImage |-> p[2]]] :
     t \in Tables, e \in EventNames, s \in Sites, i \in Ids, p \in ImagePairs}

(* ---------------------------------------------------------------------- *)
(* State                                                                   *)
(* ---------------------------------------------------------------------- *)
VARIABLES
  env,         \* TRUE iff STAGE, ES_ENDPOINT and ES_VERSION are all set
  hpc,         \* position of exports.handler
  nrec,        \* records of the batch the forEach has consumed
  skipped,     \* records consumed without pushing a promise, by reason
  processing,  \* the `processing` array: one promise per dispatched event
  indices,     \* the search engine: names of the existing indices
  docs,        \* the search engine: <<index, id>> -> body of each stored document
  cb,          \* what the Lambda callback was called with
  token,       \* indexer/viewlift.js: this.token of the one ViewLift instance
  fetches,     \* indexer/viewlift.js: the getVideo calls made on that instance
  content,     \* _prepareDocument: the content type and the record it is given
  built,       \* _prepareDocument: the document it returns, or what it throws
  search       \* search/search.js: one getSuggestions call and its queries

vars == <<env, hpc, nrec, skipped, processing, indices, docs, cb, token, fetches,
          content, built, search>>

NoDoc == <<>>
NoDocs == [k \in {} |-> NoDoc]

\* The body stored at <<index, id>>, NoDoc if there is none.
Stored(ds, index, id) ==
  IF <<index, id>> \in DOMAIN ds THEN ds[<<index, id>>] ELSE NoDoc

Put(ds, index, id, body) ==
  [k \in DOMAIN ds \cup {<<index, id>>} |-> IF k = <<index, id>> THEN body ELSE ds[k]]

Drop(ds, index, id) == [k \in DOMAIN ds \ {<<index, id>>} |-> ds[k]]

NoContent == [kind |-> "-"]
NotBuilt  == [state |-> "none"]
NoSearch  == [pc |-> "-"]

NoCallback == [calls |-> 0, err |-> FALSE, failed |-> 0, succeeded |-> 0, total |-> 0]


(* ---------------------------------------------------------------------- *)
(* Promises of the per-event operations                                    *)
(* ---------------------------------------------------------------------- *)
Kinds == {"video", "series", "article", "event", "audio", "photo"}

\* Values a promise settles with.  The Error instances are those `instanceof
\* Error` accepts: errors of the request and elasticsearch libraries and the
\* TypeError/ReferenceError the runtime throws.  "res" is the HTTP response
\* object and "body" the response body string.
ErrorValues == {"Error", "NotFound", "IndexExists", "TypeError", "ReferenceError"}
OtherValues == {"res", "body"}

InstanceOfError(v) == v \in ErrorValues

Promise(kind, action, site, id, pc, val) ==
  [kind |-> kind, action |-> action, site |-> site, id |-> id,
   pc |-> pc, val |-> val, tok |-> "-"]

Fulfil(p, v) == [p EXCEPT !.pc = "fulfilled", !.val = v, !.tok = "-"]
\* (RejectAndRetry: a failed request is issued again instead of rejecting.)
RejectAndRetry(p, v) == [p EXCEPT !.val = v]
Reject(p, v) == [p EXCEPT !.pc = "rejected",  !.val = v, !.tok = "-"]

Settled(p) == p.pc \in {"fulfilled", "rejected"}

\* The document a transformer builds from the record the content API holds
\* for (site, id).
Document(kind, site, id) == <<kind, site, id>>

\* Index.insert(index, id, doc) and Index.remove(index, id) take their
\* parameters by position; further arguments are dropped.
InsertParams(args) == [index |-> args[1], id |-> args[2], doc |-> args[3]]
RemoveParams(args) == [index |-> args[1], id |-> args[2]]

\* The arguments each class passes to this.insert / this.remove.  An id that
\* lands in the doc parameter is written as the one-element body <<id>>.
InsertArgs(kind, site, id) ==
  CASE kind = "event"  -> <<site, "events", <<id>>, Document(kind, site, id)>>
    [] kind = "series" -> <<site, "series", <<id>>, Document(kind, site, id)>>
    [] kind = "video"  -> <<site, "videos", <<id>>, Document(kind, site, id)>>
    [] OTHER           -> <<site, id, Document(kind, site, id)>>

RemoveArgs(kind, site, id) ==
  CASE kind = "event"  -> <<site, "events", id>>
    [] kind = "series" -> <<site, "series", id>>
    [] kind = "video"  -> <<site, "videos", id>>
    [] OTHER           -> <<site, id>>

InsertCall(p) == InsertParams(InsertArgs(p.kind, p.site, p.id))
RemoveCall(p) == RemoveParams(RemoveArgs(p.kind, p.site, p.id))

\* (ApiIndexAlwaysFetching: an index() that fetches the content whatever the
\* action is.)
ApiIndexAlwaysFetching(kind, action, site, id) ==
  Promise(kind, action, site, id, "token", "-")
\* <Class>.index(action, site, id): the state of the promise it returns when
\* the call returns.  "token": the token request of api.get<Type> is in
\* flight; "delete": the delete request is in flight; "pending": no branch of
\* the executor ran, nothing will ever settle the promise.
ApiIndex(kind, action, site, id) ==
  CASE action = "INSERT" -> Promise(kind, action, site, id, "token", "-")
    [] action = "REMOVE" -> Promise(kind, action, site, id, "delete", "-")
    [] OTHER             -> Promise(kind, action, site, id, "pending", "-")

Articles_index(action, site, id) == ApiIndex("article", action, site, id)
Events_index(action, site, id)   == ApiIndex("event", action, site, id)
Audio_index(action, site, id)    == ApiIndex("audio", action, site, id)
Photos_index(action, site, id)   == ApiIndex("photo", action, site, id)

\* Series.index calls the bare name _prepareDocument, which is not in scope:
\* the executor throws a ReferenceError and the promise is rejected with it.
Series_index(action, site, id) ==
  CASE action = "INSERT" -> Promise("series", action, site, id, "rejected", "ReferenceError")
    [] action = "REMOVE" -> Promise("series", action, site, id, "delete", "-")
    [] OTHER             -> Promise("series", action, site, id, "pending", "-")

\* Videos.index(action, index, id) reads `site`, which is not in scope
\* (ReferenceError), and compares action with 'remove' in lower case.
Videos_index(action, site, id) ==
  CASE action = "INSERT" -> Promise("video", action, site, id, "rejected", "ReferenceError")
    [] action = "remove" -> Promise("video", action, site, id, "delete", "-")
    [] OTHER             -> Promise("video", action, site, id, "pending", "-")

(* ---------------------------------------------------------------------- *)
(* Event router (exports.handler, the forEach body)                        *)
(* ---------------------------------------------------------------------- *)
\* eventSourceARN with the prefix up to "table/" and the suffix from
\* "/stream" removed.
TableOf(arn) == arn[2]

\* (ActionOfInsertOnly: a router that takes only INSERT for an upsert.)
ActionOfInsertOnly(eventName) ==
  IF eventName = "INSERT" THEN "INSERT" ELSE "REMOVE"
ActionOf(eventName) ==
  IF eventName = "INSERT" \/ eventName = "MODIFY" THEN "INSERT" ELSE "REMOVE"

\* (ActiveImageOldFirst: the old image taken whenever there is one.)
ActiveImageOldFirst(record) ==
  IF record.dynamodb.OldImage # NoImage
    THEN record.dynamodb.OldImage
    ELSE record.dynamodb.NewImage
ActiveImage(record) ==
  IF record.dynamodb.NewImage # NoImage
    THEN record.dynamodb.NewImage
    ELSE record.dynamodb.OldImage

\* (SkipTypeThrowing: an unsupported type raised as an exception.)
SkipTypeThrowing == [out |-> "throw"]
Push(p)   == [out |-> "push", promise |-> p]
SkipType  == [out |-> "skipType"]
SkipTable == [out |-> "skipTable"]
Throw     == [out |-> "throw"]

\* The switch has no default case: a table it does not name falls through.
\* (UnroutedAsArticle: a default case that indexes the record as an article.)
UnroutedAsArticle(action, site, id) == Push(Articles_index(action, site, id))
Unrouted(action, site, id) == SkipTable

\* What the forEach body does with one record: push a promise, log and skip
\* an unsupported type, fall through the switch, or throw the TypeError of
\* reading a property of an undefined image.
Route(record) ==
  LET table  == TableOf(record.eventSourceARN)
      action == ActionOf(record.eventName)
      site   == record.dynamodb.Keys.site.S
      id     == record.dynamodb.Keys.id.S
      image  == ActiveImage(record)
  IN CASE table = TableVideo ->
            IF image = NoImage THEN Throw
            ELSE IF image.objectKey.S = "video"
              THEN Push(Videos_index(action, site, id)) ELSE SkipType
       [] table = TableSeries ->
            IF image = NoImage THEN Throw
            ELSE IF ~image.objectType
              THEN Push(Series_index(action, site, id)) ELSE SkipType
       [] table = TableArticle -> Push(Articles_index(action, site, id))
       [] table = TableEvent ->
            IF image = NoImage THEN Throw
            ELSE IF image.contentType.S = "EVENT"
              THEN Push(Events_index(action, site, id)) ELSE SkipType
       [] table = TableAudio ->
            IF image = NoImage THEN Throw
            ELSE IF image.contentType.S = "AUDIO"
              THEN Push(Audio_index(action, site, id)) ELSE SkipType
       [] table = TablePhoto ->
            IF image = NoImage THEN Throw
            ELSE IF image.contentType.S = "IMAGE"
              THEN Push(Photos_index(action, site, id)) ELSE SkipType
       [] OTHER -> Unrouted(action, site, id)


(* ---------------------------------------------------------------------- *)
(* exports.handler                                                         *)
(* ---------------------------------------------------------------------- *)
Init ==
  /\ env \in BOOLEAN
  /\ hpc = "start"
  /\ nrec = 0
  /\ skipped = [type |-> 0, table |-> 0]
  /\ processing = <<>>
  /\ indices \in {{}, {"acme"}}
  /\ docs = NoDocs
  /\ cb = NoCallback
  /\ token = "undefined"
  /\ fetches = <<>>
  /\ content = NoContent
  /\ built = NotBuilt
  /\ search = NoSearch

\* (CheckEnvWithoutReturn: the error callback without the return.)
CheckEnvWithoutReturn ==
  /\ hpc = "start"
  /\ hpc' = "forEach"
  /\ cb' = IF env THEN cb ELSE [cb EXCEPT !.calls = @ + 1, !.err = TRUE]
  /\ UNCHANGED <<env, nrec, skipped, processing, indices, docs, token, fetches, content, built, search>>

\* handler.js:58-61: the environment check.
CheckEnv ==
  /\ hpc = "start"
  /\ IF env
       THEN /\ hpc' = "forEach"
            /\ cb' = cb
       ELSE /\ hpc' = "done"
            /\ cb' = [cb EXCEPT !.calls = @ + 1, !.err = TRUE]
  /\ UNCHANGED <<env, nrec, skipped, processing, indices, docs, token, fetches, content, built, search>>

\* handler.js:64-108: one iteration of event.Records.forEach.  A throw leaves
\* the handler without Promise.all ever being reached.
HandleRecord(record) ==
  /\ hpc = "forEach"
  /\ nrec < MaxBatch
  /\ nrec' = nrec + 1
  /\ LET r == Route(record)
     IN CASE r.out = "push" ->
               /\ processing' = Append(processing, r.promise)
               /\ UNCHANGED <<hpc, skipped>>
          [] r.out = "skipType" ->
               /\ skipped' = [skipped EXCEPT !.type = @ + 1]
               /\ UNCHANGED <<hpc, processing>>
          [] r.out = "skipTable" ->
               /\ skipped' = [skipped EXCEPT !.table = @ + 1]
               /\ UNCHANGED <<hpc, processing>>
          [] r.out = "throw" ->
               /\ hpc' = "crashed"
               /\ UNCHANGED <<skipped, processing>>
  /\ UNCHANGED <<env, indices, docs, cb, token, fetches, content, built, search>>

\* handler.js:111: the forEach is over, Promise.all is called on the array.
EndForEach ==
  /\ hpc = "forEach"
  /\ hpc' = "wait"
  /\ UNCHANGED <<env, nrec, skipped, processing, indices, docs, cb, token, fetches, content, built, search>>

\* Promise.all(processing.map(p => p.catch(e => e))) fulfils once every
\* promise of the array has settled, a rejection having become a value.
\* (AllSettledOrOneRejected: Promise.all on the promises themselves, which
\* settles with the first rejection.)
AllSettledOrOneRejected(ps) ==
  \/ \A i \in DOMAIN ps : ps[i].pc = "fulfilled"
  \/ \E i \in DOMAIN ps : ps[i].pc = "rejected"
AllSettled(ps) == \A i \in DOMAIN ps : Settled(ps[i])

Count(ps, P(_)) == Cardinality({i \in DOMAIN ps : P(ps[i])})

CountedFailed(p) == InstanceOfError(p.val)

\* (ReportCountingFulfilled: succeeded counted from the fulfilled promises
\* instead of total - failed.)
ReportCountingFulfilled(ps) ==
  LET failed == Count(ps, CountedFailed)
  IN [calls |-> 1, err |-> failed # 0, failed |-> failed,
      succeeded |-> Cardinality({i \in DOMAIN ps : ps[i].pc = "fulfilled"}),
      total |-> Len(ps)]
\* handler.js:112-136: the .then of Promise.all.
Report(ps) ==
  LET failed == Count(ps, CountedFailed)
      total  == Len(ps)
  IN [calls |-> 1, err |-> failed # 0, failed |-> failed,
      succeeded |-> total - failed, total |-> total]

Finish ==
  /\ hpc = "wait"
  /\ AllSettled(processing)
  /\ hpc' = "done"
  /\ cb' = [Report(processing) EXCEPT !.calls = cb.calls + 1]
  /\ UNCHANGED <<env, nrec, skipped, processing, indices, docs, token, fetches, content, built, search>>


(* ---------------------------------------------------------------------- *)
(* Content client (class ViewLift)                                         *)
(* ---------------------------------------------------------------------- *)
\* What a request to the content API can come back with: a transport error,
\* a status >= 400, a body that is not JSON, JSON without the expected
\* field(s), or the expected answer.
ApiResponses == {"err", "status", "garbled", "shapeless", "ok"}

Ok(v)   == [ok |-> TRUE,  val |-> v]
Fail(v) == [ok |-> FALSE, val |-> v]

\* _getAnonymousToken / _getServerToken: the request callback.
GetToken(site, response) ==
  CASE response = "err"       -> Fail("Error")
    [] response = "status"    -> Fail("res")
    [] response = "garbled"   -> Fail("res")
    [] response = "shapeless" -> Ok("undefined")
    [] OTHER                  -> Ok(site)

\* (GetContentIgnoringStatus: a read that does not look at the status code.)
GetContentIgnoringStatus(response) ==
  CASE response = "err"       -> Fail("Error")
    [] response = "garbled"   -> Fail("body")
    [] response = "shapeless" -> Ok("shapeless")
    [] OTHER                  -> Ok("record")
\* _getArticle / _getEvent: the request callback.  A body that parses is
\* fulfilled as it is, whatever its shape.
GetContent(response) ==
  CASE response = "err"       -> Fail("Error")
    [] response = "status"    -> Fail("res")
    [] response = "garbled"   -> Fail("body")
    [] response = "shapeless" -> Ok("shapeless")
    [] OTHER                  -> Ok("record")

\* api.getAudio / api.getPhoto, which Audio and Photos call: the same
\* token-then-read chain against /content/audio and /content/photo.
GetImpliedContent(response) == GetContent(response)

\* <Class>._prepareDocument, the .then of api.get<Type>: reading a field of a
\* missing block (gist, contentDetails) throws a TypeError, which the chained
\* .catch turns into the rejection.
PrepareDocument(kind, site, id, data) ==
  IF data = "shapeless" THEN Fail("TypeError") ELSE Ok(Document(kind, site, id))

(* ---------------------------------------------------------------------- *)
(* Search engine                                                           *)
(* ---------------------------------------------------------------------- *)
\* What a request to the engine can come back with: a transport/engine error
\* that leaves the engine unchanged, or the engine's answer to the request.
EsResponses == {"err", "answer"}

\* (EsExistsAlways: a check that reports every index as existing.)
EsExistsAlways(index) == TRUE
EsExists(index) == index \in indices

\* indices.create answers an existing name with index_already_exists.
EsCreateFails(index) == index \in indices

\* index (the document write) replaces whatever body the id had.
\* (EsIndexMerging: an update that merges into the stored body.)
EsIndexMerging(old, doc) == IF old = NoDoc THEN doc ELSE old \o doc
EsIndex(old, doc) == doc

\* delete answers a missing document (or index) with 404 Not Found.
EsDeleteFails(index, id) == index \notin indices \/ Stored(docs, index, id) = NoDoc

(* ---------------------------------------------------------------------- *)
(* The per-event pipelines, one action per response callback               *)
(* ---------------------------------------------------------------------- *)
Running == hpc \in {"wait", "crashed"}

Update(i, p) == processing' = [processing EXCEPT ![i] = p]

\* ViewLift.get<Type>: .then / .catch of generateToken(site).
TokenResponse(i, response) ==
  LET p == processing[i]
      t == GetToken(p.site, response)
  IN /\ Running
     /\ p.pc = "token"
     /\ IF t.ok
          THEN Update(i, [p EXCEPT !.pc = "fetch", !.tok = t.val])
          ELSE Update(i, Reject(p, t.val))
     /\ UNCHANGED <<env, hpc, nrec, skipped, indices, docs, cb, token, fetches, content, built, search>>

\* ViewLift.get<Type>: .then / .catch of _get<Type>(site, id, token), then
\* <Class>._prepareDocument and the first request of Index.insert.
ContentResponse(i, response) ==
  LET p == processing[i]
      c == IF p.kind \in {"audio", "photo"}
             THEN GetImpliedContent(response)
             ELSE GetContent(response)
      d == PrepareDocument(p.kind, p.site, p.id, c.val)
  IN /\ Running
     /\ p.pc = "fetch"
     /\ IF ~c.ok THEN Update(i, Reject(p, c.val))
        ELSE IF ~d.ok THEN Update(i, Reject(p, d.val))
        ELSE Update(i, [p EXCEPT !.pc = "exists", !.tok = "-"])
     /\ UNCHANGED <<env, hpc, nrec, skipped, indices, docs, cb, token, fetches, content, built, search>>

\* Index.insert: .then / .catch of es.indices.exists.
ExistsResponse(i, response) ==
  LET p == processing[i]
      c == InsertCall(p)
  IN /\ Running
     /\ p.pc = "exists"
     /\ IF response = "err" THEN Update(i, Reject(p, "Error"))
        ELSE IF ~EsExists(c.index) THEN Update(i, [p EXCEPT !.pc = "create"])
        ELSE Update(i, [p EXCEPT !.pc = "write"])
     /\ UNCHANGED <<env, hpc, nrec, skipped, indices, docs, cb, token, fetches, content, built, search>>

\* Index.insert: .then / .catch of _createIndex.
CreateResponse(i, response) ==
  LET p == processing[i]
      c == InsertCall(p)
  IN /\ Running
     /\ p.pc = "create"
     /\ IF response = "err"
          THEN /\ Update(i, Reject(p, "Error"))
               /\ indices' = indices
          ELSE IF EsCreateFails(c.index)
          THEN /\ Update(i, Reject(p, "IndexExists"))
               /\ indices' = indices
          ELSE /\ Update(i, [p EXCEPT !.pc = "write"])
               /\ indices' = indices \cup {c.index}
     /\ UNCHANGED <<env, hpc, nrec, skipped, docs, cb, token, fetches, content, built, search>>

\* Index.insert: .then / .catch of _insert (es.index with refresh).
WriteResponse(i, response) ==
  LET p == processing[i]
      c == InsertCall(p)
  IN /\ Running
     /\ p.pc = "write"
     /\ IF response = "err"
          THEN /\ Update(i, Reject(p, "Error"))
               /\ UNCHANGED <<indices, docs>>
          ELSE /\ Update(i, Fulfil(p, "true"))
               /\ indices' = indices \cup {c.index}
               /\ docs' = Put(docs, c.index, c.id, EsIndex(Stored(docs, c.index, c.id), c.doc))
     /\ UNCHANGED <<env, hpc, nrec, skipped, cb, token, fetches, content, built, search>>

\* <Class>.index: .then / .catch of this.remove (es.delete with refresh).
DeleteResponse(i, response) ==
  LET p == processing[i]
      c == RemoveCall(p)
  IN /\ Running
     /\ p.pc = "delete"
     /\ IF response = "err"
          THEN /\ Update(i, Reject(p, "Error"))
               /\ docs' = docs
          ELSE IF EsDeleteFails(c.index, c.id)
          THEN /\ Update(i, Reject(p, "NotFound"))
               /\ docs' = docs
          ELSE /\ Update(i, Fulfil(p, "true"))
               /\ docs' = Drop(docs, c.index, c.id)
     /\ UNCHANGED <<env, hpc, nrec, skipped, indices, cb, token, fetches, content, built, search>>

Next ==
  \/ CheckEnv
  \/ \E record \in Records : HandleRecord(record)
  \/ EndForEach
  \/ \E i \in DOMAIN processing, r \in ApiResponses : TokenResponse(i, r)
  \/ \E i \in DOMAIN processing, r \in ApiResponses : ContentResponse(i, r)
  \/ \E i \in DOMAIN processing, r \in EsResponses : ExistsResponse(i, r)
  \/ \E i \in DOMAIN processing, r \in EsResponses : CreateResponse(i, r)
  \/ \E i \in DOMAIN processing, r \in EsResponses : WriteResponse(i, r)
  \/ \E i \in DOMAIN processing, r \in EsResponses : DeleteResponse(i, r)
  \/ Finish

Spec == Init /\ [][Next]_vars


(* ---------------------------------------------------------------------- *)
(* The ViewLift class of indexer/viewlift.js, which keeps its token        *)
(* ---------------------------------------------------------------------- *)
\* One instance (indexer/config.js:31) serves every getVideo call.  A token
\* is written as the site it was issued for; "undefined" is the unset (falsy)
\* this.token.
InitClient ==
  /\ env = TRUE
  /\ hpc = "start"
  /\ nrec = 0
  /\ skipped = [type |-> 0, table |-> 0]
  /\ processing = <<>>
  /\ indices = {}
  /\ docs = NoDocs
  /\ cb = NoCallback
  /\ token = "undefined"
  /\ fetches = <<>>
  /\ content = NoContent
  /\ built = NotBuilt
  /\ search = NoSearch

Fetch(site, id, pc, auth) ==
  [site |-> site, id |-> id, pc |-> pc, auth |-> auth, val |-> "-"]

\* getVideo(site, id): with no token set, the token request goes out; with
\* one set, _getVideo goes out at once with this.token as its Authorization
\* header.
GetVideo(site, id) ==
  /\ Len(fetches) < MaxFetches
  /\ IF token = "undefined"
       THEN fetches' = Append(fetches, Fetch(site, id, "token", "-"))
       ELSE fetches' = Append(fetches, Fetch(site, id, "video", token))
  /\ UNCHANGED <<env, hpc, nrec, skipped, processing, indices, docs, cb, token, content, built, search>>

\* _getVideo: the request callback.  "shapeless" is an envelope whose
\* records list is empty: records[0] is undefined and is resolved as it is.
GetVideoMeta(response) ==
  CASE response = "err"       -> Fail("Error")
    [] response = "status"    -> Fail("res")
    [] response = "garbled"   -> Fail("res")
    [] response = "shapeless" -> Ok("undefined")
    [] OTHER                  -> Ok("record")

\* getVideo: .then / .catch of generateToken(site): the token is kept on the
\* instance and _getVideo is called, which reads it back for its header.
ClientTokenResponse(i, response) ==
  LET f == fetches[i]
      t == GetToken(f.site, response)
  IN /\ f.pc = "token"
     /\ IF t.ok
          THEN /\ token' = t.val
               /\ fetches' = [fetches EXCEPT ![i] = [f EXCEPT !.pc = "video", !.auth = t.val]]
          ELSE /\ token' = token
               /\ fetches' = [fetches EXCEPT ![i] = [f EXCEPT !.pc = "rejected", !.val = t.val]]
     /\ UNCHANGED <<env, hpc, nrec, skipped, processing, indices, docs, cb, content, built, search>>

\* getVideo: .then / .catch of _getVideo(site, id).
ClientVideoResponse(i, response) ==
  LET f == fetches[i]
      m == GetVideoMeta(response)
  IN /\ f.pc = "video"
     /\ fetches' = [fetches EXCEPT ![i] =
                      [f EXCEPT !.pc = IF m.ok THEN "fulfilled" ELSE "rejected",
                                !.val = m.val]]
     /\ UNCHANGED <<env, hpc, nrec, skipped, processing, indices, docs, cb, token, content, built, search>>

NextClient ==
  \/ \E site \in Sites, id \in Ids : GetVideo(site, id)
  \/ \E i \in DOMAIN fetches, r \in ApiResponses : ClientTokenResponse(i, r)
  \/ \E i \in DOMAIN fetches, r \in ApiResponses : ClientVideoResponse(i, r)

SpecClient == InitClient /\ [][NextClient]_vars


(* ---------------------------------------------------------------------- *)
(* The transformers (<Class>._prepareDocument), on the record they are     *)
(* given                                                                   *)
(* ---------------------------------------------------------------------- *)
\* JavaScript values.  An object is written with the set of its keys beside
\* its properties; a property that is not there reads as Undefined.
Undefined == [undefined |-> TRUE]
Null      == [null |-> TRUE]
Str(s)    == [str |-> s]
Bool(b)   == [bool |-> b]
Num(n)    == [num |-> n]
List(s)   == [list |-> s]
EmptyObject == [keys |-> {}]

Titled(t) == [keys |-> {"title"}, title |-> Str(t)]
Named(n)  == [keys |-> {"name"}, name |-> Str(n)]
Credits(names) ==
  [keys |-> {"credits"}, credits |-> List([i \in DOMAIN names |-> Titled(names[i])])]

Truthy(v) == v \notin {Undefined, Null, Bool(FALSE), Str("")}

\* o.title / o.name of an object o.
Title(o) == IF "title" \in o.keys THEN o.title ELSE Undefined
Name(o)  == IF "name" \in o.keys THEN o.name ELSE Undefined

\* Reading a property of undefined or null, Object.keys of it, or calling
\* forEach on it throws a TypeError.
Nullish(v) == v \in {Undefined, Null}

\* The records the content API (for series: the translated change image)
\* can hand to a transformer.
ContentRecords ==
  [gist : [title           : {Str("X")},
           description     : {Str("d")},
           primaryCategory : {Undefined, Null, EmptyObject, Titled("Action")},
           isTrailer       : {Undefined, Bool(TRUE)},
           free            : {Bool(TRUE)},
           year            : {Num(2020)},
           publishedDate   : {Num(1500000000)},
           eventSchedule   : {Undefined, List(<<>>),
                              List(<<[keys |-> {"venue", "eventTime", "eventDate"},
                                      venue |-> Str("Hall"),
                                      eventTime |-> Num(20), eventDate |-> Num(1500000000)]>>)}],
   contentDetails : [author : {Undefined, EmptyObject, Named("Ann")},
                     status : {Str("PUBLISHED")}],
   showDetails    : {[status |-> Str("PUBLISHED")]},
   categories     : {Undefined, List(<<>>), List(<<Titled("C1"), Titled("C2")>>)},
   tags           : {Undefined, List(<<>>), List(<<Titled("T1")>>)},
   creditBlocks   : {Undefined, List(<<>>), List(<<Credits(<<"A">>)>>),
                     List(<<Credits(<<"A">>), EmptyObject, Credits(<<"B", "C">>)>>)},
   parentalRating : {Str("PG")},
   streamingInfo  : {Undefined, [keys |-> {"url"}, url |-> Str("https://cdn/a.mp3")]}]

Built(doc) == [state |-> "built", doc |-> doc]
Thrown(e)  == [state |-> "thrown", error |-> e]

\* _defineCategories / _defineTags (the same in every class): forEach over
\* the list, pushing {name: title}.
DefineNames(list) == List([i \in DOMAIN list.list |-> [keys |-> {"name"}, name |-> Title(list.list[i])]])

\* categories ? (categories.length > 0 ? _defineCategories(categories) : null) : null
GuardedNames(list) ==
  IF Truthy(list)
    THEN IF Len(list.list) > 0 THEN DefineNames(list) ELSE Null
    ELSE Null

\* o ? (Object.keys(o).length !== 0 ? o.title : null) : null, and the same
\* for o.name.
GuardedTitle(o) ==
  IF Truthy(o) THEN (IF Cardinality(o.keys) # 0 THEN Title(o) ELSE Null) ELSE Null
GuardedName(o) ==
  IF Truthy(o) THEN (IF Cardinality(o.keys) # 0 THEN Name(o) ELSE Null) ELSE Null

\* The {name} of every credit of the blocks that have credits, in order.
RECURSIVE PeopleOf(_)
PeopleOf(blocks) ==
  IF blocks = <<>> THEN <<>>
  ELSE LET block == Head(blocks)
           names == IF "credits" \in block.keys
                      THEN [i \in DOMAIN block.credits.list |->
                              [keys |-> {"name"}, name |-> Title(block.credits.list[i])]]
                      ELSE <<>>
       IN names \o PeopleOf(Tail(blocks))

\* Series._definePeople: `if (block.credits)` guards the inner forEach.
Series_definePeople(creditBlocks) ==
  IF Nullish(creditBlocks) THEN Thrown("TypeError")
  ELSE Built(List(PeopleOf(creditBlocks.list)))

\* Videos._definePeople: block.credits.forEach without a guard.
Videos_definePeople(creditBlocks) ==
  IF Nullish(creditBlocks) THEN Thrown("TypeError")
  ELSE IF \E i \in DOMAIN creditBlocks.list : "credits" \notin creditBlocks.list[i].keys
    THEN Thrown("TypeError")
  ELSE Built(List(PeopleOf(creditBlocks.list)))

\* audio.js:96: delete audio.streamingInfo.
\* (KeepStreamingInfo: the record stored as it was fetched.)
KeepStreamingInfo(audio) == audio
DeleteStreamingInfo(audio) == [audio EXCEPT !.streamingInfo = Undefined]

\* Audio._prepareDocument, the .then of api.getAudio.
Audio_prepareDocument(fetched) ==
  LET audio == DeleteStreamingInfo(fetched)
  IN Built([type                 |-> Str("audio"),
            audioTitle           |-> audio.gist.title,
            audioDescription     |-> audio.gist.description,
            audioAuthor          |-> GuardedName(audio.contentDetails.author),
            audioPrimaryCategory |-> GuardedTitle(audio.gist.primaryCategory),
            audioCategories      |-> GuardedNames(audio.categories),
            audioTags            |-> GuardedNames(audio.tags),
            data                 |-> audio])

\* Photos._prepareDocument, the .then of api.getPhoto.
Photos_prepareDocument(photo) ==
  Built([type                 |-> Str("photo"),
         photoTitle           |-> photo.gist.title,
         photoDescription     |-> photo.gist.description,
         photoAuthor          |-> GuardedName(photo.contentDetails.author),
         photoPrimaryCategory |-> GuardedTitle(photo.gist.primaryCategory),
         photoCategories      |-> GuardedNames(photo.categories),
         photoTags            |-> GuardedNames(photo.tags),
         publishedDate        |-> photo.gist.publishedDate,
         data                 |-> photo])

\* Articles._prepareDocument: article.contentDetails.author.name is read
\* without a guard.
Articles_prepareDocument(article) ==
  IF Nullish(article.contentDetails.author) THEN Thrown("TypeError")
  ELSE Built([type                   |-> Str("article"),
              articleTitle           |-> article.gist.title,
              articleDescription     |-> article.gist.description,
              articleAuthor          |-> Name(article.contentDetails.author),
              articlePrimaryCategory |-> GuardedTitle(article.gist.primaryCategory),
              articleCategories      |-> GuardedNames(article.categories),
              articleTags            |-> GuardedNames(article.tags),
              data                   |-> article])

\* Events._prepareDocument: Object.keys(event.gist.primaryCategory) and
\* event.gist.eventSchedule[0].venue are evaluated without a guard.
Events_prepareDocument(event) ==
  LET schedule == event.gist.eventSchedule
  IN IF Nullish(event.gist.primaryCategory) THEN Thrown("TypeError")
     ELSE IF Nullish(schedule) THEN Thrown("TypeError")
     ELSE IF Len(schedule.list) = 0 THEN Thrown("TypeError")
     ELSE Built([type                 |-> Str("event"),
                 eventTitle           |-> event.gist.title,
                 eventDescription     |-> event.gist.description,
                 eventPrimaryCategory |->
                   IF Cardinality(event.gist.primaryCategory.keys) # 0
                     THEN Title(event.gist.primaryCategory) ELSE Null,
                 eventCategories      |-> GuardedNames(event.categories),
                 eventTags            |-> GuardedNames(event.tags),
                 eventVenue           |-> schedule.list[1].venue,
                 eventTime            |-> schedule.list[1].eventTime,
                 eventDate            |-> schedule.list[1].eventDate,
                 data                 |-> event])

\* Series._prepareDocument on the translated image: every field is read
\* without a guard.
Series_prepareDocument(item) ==
  LET people == Series_definePeople(item.creditBlocks)
  IN IF Nullish(item.gist.primaryCategory) THEN Thrown("TypeError")
     ELSE IF Nullish(item.categories) THEN Thrown("TypeError")
     ELSE IF people.state = "thrown" THEN people
     ELSE IF Nullish(item.tags) THEN Thrown("TypeError")
     ELSE Built([type                  |-> Str("series"),
                 seriesTitle           |-> item.gist.title,
                 seriesDescription     |-> item.gist.description,
                 seriesPrimaryCategory |-> Title(item.gist.primaryCategory),
                 seriesCategories      |-> DefineNames(item.categories),
                 seriesPeople          |-> people.doc,
                 seriesTags            |-> DefineNames(item.tags),
                 status                |-> item.showDetails.status,
                 data                  |-> item])

\* Videos._prepareDocument (part_008), the .then of api.getVideo.  The title
\* is one word, for which _defineTitleSuggestions returns [title].
Videos_prepareDocument(video) ==
  LET people == IF Truthy(video.creditBlocks)
                  THEN Videos_definePeople(video.creditBlocks)
                  ELSE Built(Null)
  IN IF Nullish(video.categories) THEN Thrown("TypeError")
     ELSE IF Nullish(video.tags) THEN Thrown("TypeError")
     ELSE IF people.state = "thrown" THEN people
     ELSE Built([title           |-> video.gist.title,
                 suggestTitle    |-> List(<<video.gist.title>>),
                 type            |-> Str("video"),
                 description     |-> video.gist.description,
                 primaryCategory |-> IF Truthy(video.gist.primaryCategory)
                                       THEN Title(video.gist.primaryCategory) ELSE Null,
                 categories      |-> DefineNames(video.categories),
                 tags            |-> DefineNames(video.tags),
                 status          |-> video.contentDetails.status,
                 people          |-> people.doc,
                 isTrailer       |-> IF Truthy(video.gist.isTrailer)
                                       THEN video.gist.isTrailer ELSE Bool(FALSE),
                 free            |-> video.gist.free,
                 year            |-> video.gist.year,
                 parentalRating  |-> video.parentalRating,
                 data            |-> video])

InitDoc ==
  /\ env = TRUE
  /\ hpc = "start"
  /\ nrec = 0
  /\ skipped = [type |-> 0, table |-> 0]
  /\ processing = <<>>
  /\ indices = {}
  /\ docs = NoDocs
  /\ cb = NoCallback
  /\ token = "undefined"
  /\ fetches = <<>>
  /\ content \in [kind : Kinds, record : ContentRecords]
  /\ built = NotBuilt
  /\ search = NoSearch

\* One call of <Class>._prepareDocument on the given record, per class.
PrepareVideo ==
  /\ content.kind = "video"
  /\ built = NotBuilt
  /\ built' = Videos_prepareDocument(content.record)
  /\ UNCHANGED <<env, hpc, nrec, skipped, processing, indices, docs, cb, token,
                 fetches, content, search>>

PrepareSeries ==
  /\ content.kind = "series"
  /\ built = NotBuilt
  /\ built' = Series_prepareDocument(content.record)
  /\ UNCHANGED <<env, hpc, nrec, skipped, processing, indices, docs, cb, token,
                 fetches, content, search>>

PrepareArticle ==
  /\ content.kind = "article"
  /\ built = NotBuilt
  /\ built' = Articles_prepareDocument(content.record)
  /\ UNCHANGED <<env, hpc, nrec, skipped, processing, indices, docs, cb, token,
                 fetches, content, search>>

PrepareEvent ==
  /\ content.kind = "event"
  /\ built = NotBuilt
  /\ built' = Events_prepareDocument(content.record)
  /\ UNCHANGED <<env, hpc, nrec, skipped, processing, indices, docs, cb, token,
                 fetches, content, search>>

PrepareAudio ==
  /\ content.kind = "audio"
  /\ built = NotBuilt
  /\ built' = Audio_prepareDocument(content.record)
  /\ UNCHANGED <<env, hpc, nrec, skipped, processing, indices, docs, cb, token,
                 fetches, content, search>>

PreparePhoto ==
  /\ content.kind = "photo"
  /\ built = NotBuilt
  /\ built' = Photos_prepareDocument(content.record)
  /\ UNCHANGED <<env, hpc, nrec, skipped, processing, indices, docs, cb, token,
                 fetches, content, search>>

NextDoc ==
  \/ PrepareVideo
  \/ PrepareSeries
  \/ PrepareArticle
  \/ PrepareEvent
  \/ PrepareAudio
  \/ PreparePhoto

SpecDoc == InitDoc /\ [][NextDoc]_vars

(* ---------------------------------------------------------------------- *)
(* Strings                                                                 *)
(* ---------------------------------------------------------------------- *)
\* A string is the sequence of its symbols.  A symbol is a separator (" ",
\* ",") or a word standing for the letters of that word, so a word holds no
\* separator.  String.prototype.split: the pieces between the occurrences of
\* sep; the empty string splits into one empty piece.
RECURSIVE Split(_, _)
Split(s, sep) ==
  IF \A i \in DOMAIN s : s[i] # sep
    THEN <<s>>
    ELSE LET i == CHOOSE i \in DOMAIN s :
                    s[i] = sep /\ \A j \in 1..(i - 1) : s[j] # sep
         IN <<SubSeq(s, 1, i - 1)>> \o Split(SubSeq(s, i + 1, Len(s)), sep)

\* Array.prototype.indexOf(x) === -1
NotIn(array, x) == \A i \in DOMAIN array : array[i] # x

(* ---------------------------------------------------------------------- *)
(* Title suggestions (defineSuggestions / _defineTitleSuggestions)         *)
(* ---------------------------------------------------------------------- *)
MaxTitle == 7

TitleSymbols == {"the", "Black", "Parade", " "}
Titles == UNION {[1..n -> TitleSymbols] : n \in 0..MaxTitle}

\* Values of ES_SUGGEST_SKIP.
SkipLists == {<<>>, <<"the">>, <<"the", ",", "Black">>, <<"Parade">>}

\* The inner loop: phrase = phrase + ' ' + words[y] for y up to the last word.
RECURSIVE PhraseLoop(_, _, _)
PhraseLoop(phrase, words, y) ==
  IF y > Len(words)
    THEN phrase
    ELSE PhraseLoop(phrase \o <<" ">> \o words[y], words, y + 1)

\* The outer loop from position x on (positions count from 1 here).
RECURSIVE SuggestLoop(_, _, _, _)
SuggestLoop(suggestions, words, skip, x) ==
  IF x > Len(words)
    THEN suggestions
    ELSE SuggestLoop(IF NotIn(skip, words[x])
                       THEN Append(suggestions, PhraseLoop(words[x], words, x + 1))
                       ELSE suggestions,
                     words, skip, x + 1)

\* (defineSuggestionsFromFirstWord: the outer loop started at the first word.)
defineSuggestionsFromFirstWord(title, skipEnv) ==
  Append(SuggestLoop(<<>>, Split(title, " "), Split(skipEnv, ","), 1), title)
\* defineSuggestions(title), process.env.ES_SUGGEST_SKIP being skipEnv.
defineSuggestions(title, skipEnv) ==
  Append(SuggestLoop(<<>>, Split(title, " "), Split(skipEnv, ","), 2), title)

InitTitle ==
  /\ env = TRUE
  /\ hpc = "start"
  /\ nrec = 0
  /\ skipped = [type |-> 0, table |-> 0]
  /\ processing = <<>>
  /\ indices = {}
  /\ docs = NoDocs
  /\ cb = NoCallback
  /\ token = "undefined"
  /\ fetches = <<>>
  /\ content \in [kind : {"title"}, title : Titles, skip : SkipLists]
  /\ built = NotBuilt
  /\ search = NoSearch

\* One call of defineSuggestions on the given title.
DefineSuggestions ==
  /\ content.kind = "title"
  /\ built = NotBuilt
  /\ built' = Built(defineSuggestions(content.title, content.skip))
  /\ UNCHANGED <<env, hpc, nrec, skipped, processing, indices, docs, cb, token,
                 fetches, content, search>>

NextTitle == DefineSuggestions

SpecTitle == InitTitle /\ [][NextTitle]_vars

(* ---------------------------------------------------------------------- *)
(* Search.getSuggestions (search/search.js)                                *)
(* ---------------------------------------------------------------------- *)
MaxTypes == 3

\* The content types, in the order of the branch that queries them all.
TypeNames == <<"videos", "series", "articles", "events", "audio", "photos">>
Recognized == {TypeNames[i] : i \in DOMAIN TypeNames}

\* The `types` parameter: absent (undefined), or a string of at most
\* MaxTypes symbols.
TypeSymbols == Recognized \cup {"movies", ","}
Absent       == [given |-> FALSE, str |-> <<>>]
Given(str)   == [given |-> TRUE, str |-> str]
TypesInputs ==
  {Absent} \cup {Given(str) : str \in UNION {[1..n -> TypeSymbols] : n \in 0..MaxTypes}}

\* if (types): undefined and the empty string are falsy.
Falsy(types) == ~types.given \/ types.str = <<>>

\* What the engine holds: the `data` of the hits of each per-type query.
Hits(type) ==
  CASE type = "videos"   -> <<"v1", "v2">>
    [] type = "series"   -> <<>>
    [] type = "articles" -> <<"a1">>
    [] OTHER             -> <<type>>

\* The promise es.search returns for the query of one type.
Query(type) == [type |-> type, pc |-> "pending"]

\* types.forEach with the switch: a query per piece that is a type name.
RECURSIVE QueriesOf(_)
QueriesOf(pieces) ==
  IF pieces = <<>>
    THEN <<>>
    ELSE (IF Len(Head(pieces)) = 1 /\ Head(pieces)[1] \in Recognized
            THEN <<Query(Head(pieces)[1])>>
            ELSE <<>>) \o QueriesOf(Tail(pieces))

\* (SuggestionsOfSplit: the switch applied without the test of `types`.)
SuggestionsOfSplit(types) == QueriesOf(Split(types.str, ","))
\* search.js:70-102: the `suggestions` array.
Suggestions(types) ==
  IF Falsy(types)
    THEN [i \in DOMAIN TypeNames |-> Query(TypeNames[i])]
    ELSE QueriesOf(Split(types.str, ","))

RECURSIVE HitsOf(_, _)
HitsOf(suggestions, order) ==
  IF order = <<>>
    THEN <<>>
    ELSE Hits(suggestions[Head(order)].type) \o HitsOf(suggestions, Tail(order))

\* (CombineAsCompleted: the results taken in the order the queries completed.)
CombineAsCompleted(suggestions, done) == HitsOf(suggestions, done)
\* search.js:105-114: the .then of Promise.all walks the results, which are in
\* the order of the `suggestions` array, and pushes the data of every hit.
Combine(suggestions, done) ==
  HitsOf(suggestions, [i \in DOMAIN suggestions |-> i])

InitSearch ==
  /\ env = TRUE
  /\ hpc = "start"
  /\ nrec = 0
  /\ skipped = [type |-> 0, table |-> 0]
  /\ processing = <<>>
  /\ indices = {}
  /\ docs = NoDocs
  /\ cb = NoCallback
  /\ token = "undefined"
  /\ fetches = <<>>
  /\ content = NoContent
  /\ built = NotBuilt
  /\ search \in {[pc |-> "start", types |-> t, suggestions |-> <<>>,
                  done |-> <<>>, response |-> <<>>, error |-> "-"] :
                 t \in TypesInputs}

\* getSuggestions(searchTerm, types): the queries are issued and Promise.all
\* is called on them; Promise.all of no promise fulfils with no result.
\* search.done is the order in which the queries have completed.
GetSuggestions ==
  /\ search.pc = "start"
  /\ LET suggestions == Suggestions(search.types)
     IN search' = [search EXCEPT
                     !.suggestions = suggestions,
                     !.pc = IF suggestions = <<>> THEN "fulfilled" ELSE "wait"]
  /\ UNCHANGED <<env, hpc, nrec, skipped, processing, indices, docs, cb, token,
                 fetches, content, built>>

\* The engine answers query i.  An error rejects Promise.all, whose .catch
\* rejects getSuggestions; the last answer fulfils Promise.all, whose .then
\* fulfils getSuggestions with the combined response.  A settled promise stays
\* as it is.
QueryResponse(i, answer) ==
  /\ search.pc \in {"wait", "fulfilled", "rejected"}
  /\ search.suggestions[i].pc = "pending"
  /\ LET suggestions == [search.suggestions EXCEPT
                           ![i].pc = IF answer = "err" THEN "rejected" ELSE "fulfilled"]
         done == Append(search.done, i)
     IN search' =
          IF search.pc # "wait"
            THEN [search EXCEPT !.suggestions = suggestions, !.done = done]
          ELSE IF answer = "err"
            THEN [search EXCEPT !.suggestions = suggestions, !.done = done,
                                !.pc = "rejected", !.error = "Error"]
          ELSE IF \A j \in DOMAIN suggestions : suggestions[j].pc = "fulfilled"
            THEN [search EXCEPT !.suggestions = suggestions, !.done = done,
                                !.pc = "fulfilled",
                                !.response = Combine(suggestions, done)]
          ELSE [search EXCEPT !.suggestions = suggestions, !.done = done]
  /\ UNCHANGED <<env, hpc, nrec, skipped, processing, indices, docs, cb, token,
                 fetches, content, built>>

NextSearch ==
  \/ GetSuggestions
  \/ \E i \in DOMAIN search.suggestions, answer \in EsResponses :
       QueryResponse(i, answer)

SpecSearch == InitSearch /\ [][NextSearch]_vars

(* ---------------------------------------------------------------------- *)
(* Claims                                                                  *)
(* ---------------------------------------------------------------------- *)
Rejected(p)  == p.pc = "rejected"
Fulfilled(p) == p.pc = "fulfilled"
Called == hpc = "done" /\ env /\ cb.calls = 1

\* C1: the `failed` count of the completion callback equals the number of
\* dispatched operations whose pipeline failed (whose promise was rejected);
\* in particular it is not 0 when some operation failed.
C1_FailedCountsEveryFailure ==
  Called => cb.failed = Count(processing, Rejected)

\* C2: every per-event index operation fulfils with true and rejects with a
\* value that is an Error.
C2_RejectsWithAnError ==
  \A i \in DOMAIN processing :
    /\ Fulfilled(processing[i]) => processing[i].val = "true"
    /\ Rejected(processing[i]) => InstanceOfError(processing[i].val)

\* C3: the completion callback is invoked only after every dispatched
\* operation has settled, and the step that rejects one operation leaves
\* every sibling operation as it was (it neither settles nor cancels it).
C3_CallbackAfterAllSettled ==
  /\ [](cb.calls > 0 /\ env => \A i \in DOMAIN processing : Settled(processing[i]))
  /\ [][\A i \in DOMAIN processing :
          (~Rejected(processing[i]) /\ Rejected(processing'[i])) =>
            /\ cb' = cb
            /\ \A j \in DOMAIN processing \ {i} : processing'[j] = processing[j]]_vars

\* C3 witness: the callback was invoked for a batch in which one operation
\* was rejected and a sibling was fulfilled.
C3_Witness ==
  /\ Called
  /\ \E i, j \in DOMAIN processing :
       Rejected(processing[i]) /\ Fulfilled(processing[j])

\* C4: the callback carries an error if and only if at least one dispatched
\* operation failed; with no failure it reports success for the total number
\* of processed events.
C4_ErrorIffSomeFailure ==
  Called =>
    /\ cb.err <=> (\E i \in DOMAIN processing : Rejected(processing[i]))
    /\ ~cb.err => cb.total = Len(processing)


\* C5: of two concurrent upserts that both find the site's index absent, the
\* one whose create request arrives second takes the engine's 'already
\* exists' answer as success: no upsert is rejected with that answer.
C5_CreateRaceIsTolerated ==
  \A i \in DOMAIN processing : processing[i].val # "IndexExists"

\* C6: a REMOVE event whose document is not in the index is counted as
\* succeeded: the engine's 'not found' answer never rejects its operation.
C6_RemoveOfAbsentSucceeds ==
  \A i \in DOMAIN processing :
    processing[i].action = "REMOVE" => processing[i].val # "NotFound"

\* C7: every document in the index is stored in the index named by its
\* event's site under the id contentId, for every content type: the body at
\* <<index, id>> is the document built for (index, id).
C7_StoredUnderSiteAndContentId ==
  \A k \in DOMAIN docs :
    \E kind \in Kinds : docs[k] = Document(kind, k[1], k[2])

\* C8: running the same upsert twice leaves the index in the state reached
\* after running it once: exactly one document, at the id and with the body
\* the gateway's insert was given (replaced, not merged); for article, audio
\* and photo that is the transformer's output at <<site, contentId>>.
SameUpserts ==
  /\ processing # <<>>
  /\ \A i \in DOMAIN processing : processing[i] = processing[1]
  /\ processing[1].action = "INSERT"
  /\ Fulfilled(processing[1])

MalformedRecords ==
  {r \in Records : r.dynamodb.NewImage = NoImage /\ r.dynamodb.OldImage = NoImage}

C9_MalformedIsAFailedItem ==
  [][hpc = "forEach" =>
       \A r \in MalformedRecords :
         HandleRecord(r) =>
           /\ hpc' = "forEach"
           /\ Len(processing') = Len(processing) + 1
           /\ Rejected(processing'[Len(processing')])
           /\ InstanceOfError(processing'[Len(processing')].val)]_vars

\* C10: an event of an unrecognized source table dispatches no operation
\* and issues no request (no promise is pushed, the engine is untouched),
\* is not counted in the processed total, and does not fail the batch: the
\* reported total is the number of dispatched operations and a reported
\* error stems from a dispatched operation.
UnrecognizedRecords ==
  {r \in Records : TableOf(r.eventSourceARN) \notin RecognizedTables}

SkipsTheRecord ==
  /\ processing' = processing
  /\ hpc' = "forEach"
  /\ skipped' = [skipped EXCEPT !.table = @ + 1]
  /\ indices' = indices /\ docs' = docs /\ cb' = cb

C10_UnrecognizedTableIsSkipped ==
  /\ hpc = "forEach" =>
       \A r \in UnrecognizedRecords : ~ENABLED (HandleRecord(r) /\ ~SkipsTheRecord)
  /\ Called =>
       /\ cb.total = nrec - skipped.table - skipped.type
       /\ cb.total = Len(processing)
       /\ cb.err => \E i \in DOMAIN processing : Rejected(processing[i])

\* C10 witness: a batch of one unrecognized-table event and one successful
\* operation completed with a success report for 1 event.
C10_Witness ==
  /\ Called
  /\ skipped.table = 1
  /\ nrec = 2
  /\ ~cb.err
  /\ cb.total = 1

\* C11: an event of the content-metadata, event, audio or photo-gallery
\* table whose discriminator (objectKey.S, contentType.S) is not 'video',
\* 'EVENT', 'AUDIO', 'IMAGE' respectively dispatches no operation (no promise
\* is pushed, the engine is untouched, the forEach goes on), is not counted
\* in the reported total, and a reported error stems from a dispatched
\* operation, never from the skipped event.
Discriminator(r) ==
  LET image == IF r.dynamodb.NewImage # NoImage
                 THEN r.dynamodb.NewImage ELSE r.dynamodb.OldImage
  IN CASE r.eventSourceARN[2] = TableVideo -> <<image.objectKey.S, "video">>
       [] r.eventSourceARN[2] = TableEvent -> <<image.contentType.S, "EVENT">>
       [] r.eventSourceARN[2] = TableAudio -> <<image.contentType.S, "AUDIO">>
       [] r.eventSourceARN[2] = TablePhoto -> <<image.contentType.S, "IMAGE">>

UnsupportedRecords ==
  {r \in Records :
     /\ r.eventSourceARN[2] \in {TableVideo, TableEvent, TableAudio, TablePhoto}
     /\ r.dynamodb.NewImage # NoImage \/ r.dynamodb.OldImage # NoImage
     /\ Discriminator(r)[1] # Discriminator(r)[2]}

SkipsTheType ==
  /\ processing' = processing
  /\ hpc' = "forEach"
  /\ skipped' = [skipped EXCEPT !.type = @ + 1]
  /\ indices' = indices /\ docs' = docs /\ cb' = cb

ModifyRecords == {r \in Records : r.eventName = "MODIFY"}
OtherRecords  == {r \in Records : r.eventName \notin {"INSERT", "MODIFY"}}

PushedAction(a) ==
  Len(processing') = Len(processing) + 1 => processing'[Len(processing')].action = a

C12_ModifyIsInsertElseRemove ==
  hpc = "forEach" =>
    /\ \A r \in ModifyRecords :
         ~ENABLED (/\ HandleRecord(r)
                   /\ ~(/\ HandleRecord([r EXCEPT !.eventName = "INSERT"])
                         /\ PushedAction("INSERT")))
    /\ \A r \in OtherRecords :
         ~ENABLED (HandleRecord(r) /\ ~PushedAction("REMOVE"))

\* C12 witness: the router dispatched an upsert and then a remove.
C12_Witness ==
  /\ hpc = "forEach"
  /\ Len(processing) = 2
  /\ processing[1].action = "INSERT" /\ processing[1].pc = "token"
  /\ processing[2].action = "REMOVE" /\ processing[2].pc = "delete"

\* C13: a REMOVE event with keys (site, id) causes exactly one delete
\* request, addressed to index = site and document id = id, for every
\* content type: the delete request in flight for a dispatched remove
\* operation carries the operation's site and id.
C13_DeleteAddressesSiteAndId ==
  \A i \in DOMAIN processing :
    processing[i].pc = "delete" =>
      RemoveCall(processing[i]) = [index |-> processing[i].site, id |-> processing[i].id]

\* C14: within one upsert pipeline the steps follow the order token request,
\* content fetch (with the document build), index-exists check, index
\* create, document write: a pipeline starts at the token request, every
\* step either rejects it or moves it to the next step, the create is
\* issued only after a check that found the index absent, and the write
\* only with the index in place.
C14_StepsInOrder ==
  [][/\ \A i \in DOMAIN processing :
          LET p == processing[i]
              q == processing'[i]
          IN (p.action = "INSERT" /\ q.pc # p.pc) =>
               \/ q.pc = "rejected" /\ p.pc \in {"token", "fetch", "exists", "create", "write"}
               \/ p.pc = "token"  /\ q.pc = "fetch"
               \/ p.pc = "fetch"  /\ q.pc = "exists"
               \/ p.pc = "exists" /\ q.pc = "create" /\ p.site \notin indices
               \/ p.pc = "exists" /\ q.pc = "write"  /\ p.site \in indices
               \/ p.pc = "create" /\ q.pc = "write"  /\ p.site \in indices'
               \/ p.pc = "write"  /\ q.pc = "fulfilled" /\ p.site \in indices
     /\ Len(processing') > Len(processing) =>
          LET q == processing'[Len(processing')]
          IN q.action = "INSERT" => q.pc \in {"token", "rejected"}]_vars

\* C14 witness: an upsert for a site whose index did not exist went through
\* every step, the create included, and was fulfilled.
C14_Witness ==
  /\ hpc = "done"
  /\ \E i \in DOMAIN processing :
       /\ processing[i].action = "INSERT"
       /\ processing[i].site = "beta"
       /\ Fulfilled(processing[i])
  /\ "beta" \in indices

\* C15: in a batch whose events target pairwise distinct (site, contentId)
\* pairs no pipeline reads or writes state of another pipeline, so that the
\* outcome does not depend on the interleaving: the index a pipeline found
\* absent is still absent when its create request is answered, and no
\* operation is rejected over an index another pipeline created meanwhile.
DistinctTargets ==
  \A i, j \in DOMAIN processing :
    i # j => <<processing[i].site, processing[i].id>> # <<processing[j].site, processing[j].id>>

C15_PipelinesDoNotInterfere ==
  DistinctTargets =>
    \A i \in DOMAIN processing :
      /\ processing[i].pc = "create" => processing[i].site \notin indices
      /\ processing[i].val # "IndexExists"

\* C16: after the batch completed, every event counted as succeeded has
\* taken effect: for an upsert the transformer's output is stored at
\* (index = site, id = contentId), for a remove no document is stored there;
\* this also with failed items in the batch.  (Stated for batches with
\* pairwise distinct targets, where no later event undoes an earlier one.)
C16_SucceededItemsTookEffect ==
  (Called /\ DistinctTargets) =>
    \A i \in DOMAIN processing :
      LET p == processing[i]
      IN ~InstanceOfError(p.val) =>
           /\ p.action = "INSERT" =>
                Stored(docs, p.site, p.id) = Document(p.kind, p.site, p.id)
           /\ p.action = "REMOVE" => Stored(docs, p.site, p.id) = NoDoc

\* C18: every content request carries a token that the token request of
\* the same fetch call returned for the call's site, and a token request
\* that fails (transport error or error status) rejects the operation
\* without a content request being issued.
C18_ContentRequestCarriesItsToken ==
  \A i \in DOMAIN processing :
    /\ processing[i].pc = "fetch" => processing[i].tok = processing[i].site
    /\ \A r \in {"err", "status"} :
         ~ENABLED (TokenResponse(i, r) /\ ~Rejected(processing'[i]))

\* C19: a token or content response with an error status fails the client:
\* the operation is rejected at that step (no body is parsed, no later step
\* runs) with a value the handler counts as failed.
FailsTheItem(i) ==
  /\ Rejected(processing'[i])
  /\ InstanceOfError(processing'[i].val)

C19_ErrorStatusFailsTheItem ==
  \A i \in DOMAIN processing :
    /\ ~ENABLED (TokenResponse(i, "status") /\ ~FailsTheItem(i))
    /\ ~ENABLED (ContentResponse(i, "status") /\ ~FailsTheItem(i))

\* C20: a token or content response with a success status whose body is not
\* JSON or lacks the expected shape rejects the operation at that step: no
\* content request goes out with a missing token, and no document is built
\* or written from a missing record.
C20_UnusableBodyIsAParseError ==
  \A i \in DOMAIN processing :
    /\ \A r \in {"garbled", "shapeless"} :
         /\ ~ENABLED (TokenResponse(i, r) /\ ~Rejected(processing'[i]))
         /\ ~ENABLED (ContentResponse(i, r) /\ ~Rejected(processing'[i]))
    /\ processing[i].pc = "fetch" => processing[i].tok # "undefined"

\* C17: a token obtained for one site is never attached to a content
\* request for another site, also when one client instance that keeps its
\* token serves calls for several sites: the Authorization header of every
\* content request in flight is a token issued for the request's site.
C17_TokenStaysWithItsSite ==
  \A i \in DOMAIN fetches :
    (fetches[i].pc = "video" /\ fetches[i].auth \in Sites) =>
      fetches[i].auth = fetches[i].site

\* C21: each external operation of an event's pipeline is issued at most
\* once: every step of a pipeline moves it strictly forward through token,
\* fetch, exists, create, write (or delete) to its settlement, a settled
\* operation never changes again, and a failed request settles it.
Rank(pc) ==
  CASE pc = "pending" -> 0
    [] pc = "token"   -> 1
    [] pc = "fetch"   -> 2
    [] pc = "exists"  -> 3
    [] pc = "create"  -> 4
    [] pc = "write"   -> 5
    [] pc = "delete"  -> 5
    [] OTHER          -> 6

C21_NoOperationIsReissued ==
  [][\A i \in DOMAIN processing :
       processing'[i] # processing[i] =>
         /\ Rank(processing'[i].pc) > Rank(processing[i].pc)
         /\ processing'[i].val # "-" => Settled(processing'[i])]_vars

\* C21 witness: the batch completed with an operation whose request failed
\* and was left failed.
C21_Witness ==
  /\ Called
  /\ \E i \in DOMAIN processing :
       Rejected(processing[i]) /\ processing[i].val = "Error"

\* C22: a series-table event is dispatched if and only if its active image
\* (the new image if present, else the old one) has no objectType; with an
\* objectType it is skipped: nothing is pushed and nothing else changes.
SeriesRecords ==
  {r \in Records :
     /\ r.eventSourceARN[2] = TableSeries
     /\ r.dynamodb.NewImage # NoImage \/ r.dynamodb.OldImage # NoImage}

HasObjectType(r) ==
  IF r.dynamodb.NewImage # NoImage
    THEN r.dynamodb.NewImage.objectType
    ELSE r.dynamodb.OldImage.objectType

DispatchesSeries ==
  /\ Len(processing') = Len(processing) + 1
  /\ processing'[Len(processing')].kind = "series"
  /\ hpc' = "forEach"
  /\ skipped' = skipped

C22_SeriesDispatchedIffNoObjectType ==
  hpc = "forEach" =>
    \A r \in SeriesRecords :
      IF HasObjectType(r)
        THEN ~ENABLED (HandleRecord(r) /\ ~SkipsTheType)
        ELSE ~ENABLED (HandleRecord(r) /\ ~DispatchesSeries)

\* C22 witness: of two series events one was skipped and one dispatched.
C22_Witness ==
  /\ hpc = "forEach"
  /\ nrec = 2
  /\ skipped.type = 1
  /\ Len(processing) = 1
  /\ processing[1].kind = "series"

\* C23: a series upsert builds its document from the change image and goes
\* straight to the index, with no token or content request, and is counted
\* as succeeded when the write succeeds: it is never rejected with an error
\* of the runtime before the first index request.
C23_SeriesIndexedFromImage ==
  \A i \in DOMAIN processing :
    (processing[i].kind = "series" /\ processing[i].action = "INSERT") =>
      /\ processing[i].pc \notin {"token", "fetch"}
      /\ processing[i].val \notin {"ReferenceError", "TypeError"}

\* C30: with one of STAGE, ES_ENDPOINT, ES_VERSION unset the handler calls
\* back once, with an error, consumes no record, dispatches no operation
\* and leaves the search engine as it was.
C30_UnsetEnvironmentStopsTheHandler ==
  ~env =>
    /\ nrec = 0
    /\ processing = <<>>
    /\ docs = NoDocs
    /\ hpc \in {"start", "done"}
    /\ hpc = "done" => cb.calls = 1 /\ cb.err

\* C30 witness: the handler returned after the error callback.
C30_Witness ==
  /\ ~env
  /\ hpc = "done"
  /\ cb.calls = 1
  /\ cb.err

\* The record fields whose absence or emptiness the transformers have to
\* cope with, and a record that is complete in all of them but `except`.
Complete(record, except) ==
  /\ "primaryCategory" \in except \/ record.gist.primaryCategory = Titled("Action")
  /\ "eventSchedule" \in except \/ record.gist.eventSchedule \notin {Undefined, List(<<>>)}
  /\ "author" \in except \/ record.contentDetails.author = Named("Ann")
  /\ "categories" \in except \/ record.categories \notin {Undefined, List(<<>>)}
  /\ "tags" \in except \/ record.tags \notin {Undefined, List(<<>>)}
  /\ "creditBlocks" \in except \/ record.creditBlocks = List(<<Credits(<<"A">>)>>)

Prepared == built # NotBuilt

\* The name each class gives a field of its document.
FieldName(kind, field) ==
  CASE kind = "video"   -> field
    [] kind = "series"  -> [primaryCategory |-> "seriesPrimaryCategory", categories |-> "seriesCategories",
                            tags |-> "seriesTags", people |-> "seriesPeople"][field]
    [] kind = "article" -> [primaryCategory |-> "articlePrimaryCategory", categories |-> "articleCategories",
                            tags |-> "articleTags"][field]
    [] kind = "event"   -> [primaryCategory |-> "eventPrimaryCategory", categories |-> "eventCategories",
                            tags |-> "eventTags"][field]
    [] kind = "audio"   -> [primaryCategory |-> "audioPrimaryCategory", categories |-> "audioCategories",
                            tags |-> "audioTags"][field]
    [] kind = "photo"   -> [primaryCategory |-> "photoPrimaryCategory", categories |-> "photoCategories",
                            tags |-> "photoTags"][field]

\* null for an absent or empty list, else the list of {name: title}.
NamesOrNull(list) ==
  IF list \in {Undefined, List(<<>>)} THEN Null
  ELSE List([i \in DOMAIN list.list |-> [keys |-> {"name"}, name |-> list.list[i].title]])

\* C24: for every content type the categories field, and likewise the tags
\* field, of the built document is null (never an empty list) when the
\* record's list is empty or absent, and otherwise the list of {name: title}
\* in source order; the document is built in each of these cases.
C24_EmptyCategoriesAreNull ==
  (Prepared /\ Complete(content.record, {"categories", "tags"})) =>
    /\ built.state = "built"
    /\ built.doc[FieldName(content.kind, "categories")] = NamesOrNull(content.record.categories)
    /\ built.doc[FieldName(content.kind, "tags")] = NamesOrNull(content.record.tags)

\* C25: the people field is one {name} per credit of every credit block, in
\* block and credit order; a block without a credits key contributes
\* nothing and does not make the build fail.
C25_PeopleFlattenedSkippingEmptyBlocks ==
  (/\ Prepared
   /\ content.kind \in {"video", "series"}
   /\ Complete(content.record, {"creditBlocks"})
   /\ content.record.creditBlocks # Undefined) =>
    /\ built.state = "built"
    /\ LET people == built.doc[FieldName(content.kind, "people")]
           blocks == content.record.creditBlocks.list
       IN \/ people = List(PeopleOf(blocks))
          \/ blocks = <<>> /\ people = Null

\* C26: for every content type the primary-category field is the
\* primaryCategory's title when gist.primaryCategory is present and
\* non-empty and null when it is absent, falsy or an empty object, and the
\* document is built in each of these cases.
C26_PrimaryCategoryTitleOrNull ==
  (Prepared /\ Complete(content.record, {"primaryCategory"})) =>
    /\ built.state = "built"
    /\ built.doc[FieldName(content.kind, "primaryCategory")] =
         IF content.record.gist.primaryCategory = Titled("Action")
           THEN Str("Action") ELSE Null

\* C27: a transformer produces a document for every record, and every
\* field of the document has a value or null: none is left undefined (which
\* the JSON body omits) because its source is absent or empty.
C27_EveryFieldPresentOrNull ==
  Prepared =>
    /\ built.state = "built"
    /\ \A f \in DOMAIN built.doc : built.doc[f] # Undefined

\* C28: a video document has type 'video' and the type-prefixed fields
\* videoTitle, videoPrimaryCategory, videoCategories and videoTags (null
\* for a record without tags), together with status, isTrailer (false when
\* absent), free and year of the fetched record.
C28_VideoDocumentFields ==
  (/\ Prepared
   /\ content.kind = "video"
   /\ Complete(content.record, {"tags"})) =>
    /\ built.state = "built"
    /\ {"type", "videoTitle", "videoPrimaryCategory", "videoCategories", "videoTags",
         "status", "isTrailer", "free", "year"} \subseteq DOMAIN built.doc
    /\ built.doc.type = Str("video")
    /\ built.doc.videoTitle = content.record.gist.title
    /\ built.doc.videoPrimaryCategory = Str("Action")
    /\ built.doc.videoCategories = NamesOrNull(content.record.categories)
    /\ built.doc.videoTags = NamesOrNull(content.record.tags)
    /\ built.doc.status = content.record.contentDetails.status
    /\ built.doc.isTrailer = IF content.record.gist.isTrailer = Undefined
                               THEN Bool(FALSE) ELSE content.record.gist.isTrailer
    /\ built.doc.free = content.record.gist.free
    /\ built.doc.year = content.record.gist.year

\* C29: the data field of an audio document has no streamingInfo and is in
\* every other field the fetched audio record.
C29_AudioDataWithoutStreamingInfo ==
  (Prepared /\ content.kind = "audio") =>
    /\ built.state = "built"
    /\ built.doc.data.streamingInfo = Undefined
    /\ \A f \in DOMAIN content.record \ {"streamingInfo"} :
         built.doc.data[f] = content.record[f]
    /\ DOMAIN built.doc.data = DOMAIN content.record

\* C29 witness: an audio document was built from a record that came with
\* streamingInfo.
C29_Witness ==
  /\ content.kind = "audio"
  /\ content.record.streamingInfo # Undefined
  /\ built.state = "built"

\* C31: in every batch report succeeded + failed = total, and total is the
\* number of events an operation was dispatched for: the events of the
\* batch without the skipped ones.
C31_ReportAddsUp ==
  Called =>
    /\ cb.succeeded + cb.failed = cb.total
    /\ cb.total = Len(processing)
    /\ cb.total = nrec - skipped.type - skipped.table

\* C31 witness: a batch of one skipped event and one failed operation was
\* reported.
C31_Witness ==
  /\ Called
  /\ nrec = 2
  /\ skipped.type = 1
  /\ cb.total = 1
  /\ cb.failed = 1

\* C32: every dispatched operation eventually settles, whatever its event
\* name and content type.  No request is in flight for a promise at
\* "pending" and no callback refers to it: to settle eventually, no
\* operation may ever be at "pending".
C32_EveryOperationCanSettle ==
  \A i \in DOMAIN processing : processing[i].pc # "pending"

\* C33: the completion callback is invoked exactly once on every path: never
\* twice, and once when the invocation has nothing left to do.
C33_CallbackInvokedExactlyOnce ==
  /\ cb.calls <= 1
  /\ (~ENABLED Next) => cb.calls = 1

\* C34: when the token request or the content fetch of an upsert fails
\* (transport error, error status, unparsable body), the operation is
\* rejected there: no index-exists, index-create or write request follows,
\* no index is created and no document written.
FailedResponses == {"err", "status", "garbled"}

LeavesTheEngineAlone(i) ==
  /\ Rejected(processing'[i])
  /\ indices' = indices
  /\ docs' = docs

C34_FailedFetchLeavesTheIndexAlone ==
  \A i \in DOMAIN processing : \A r \in FailedResponses :
    /\ ~ENABLED (TokenResponse(i, r) /\ ~LeavesTheEngineAlone(i))
    /\ ~ENABLED (ContentResponse(i, r) /\ ~LeavesTheEngineAlone(i))

\* C34 witness: a batch completed in which a content fetch came back with a
\* body that does not parse, and the engine holds no index and no document.
C34_Witness ==
  /\ Called
  /\ \E i \in DOMAIN processing :
       Rejected(processing[i]) /\ processing[i].val = "body"
  /\ indices = {}
  /\ docs = NoDocs

\* C35: a step of the operation for (site, contentId) changes no document
\* other than the one at (site, contentId), creates no index other than
\* site and removes no index.
C35_OnlyTheTargetChanges ==
  [][\A i \in DOMAIN processing :
       processing'[i] # processing[i] =>
         LET p == processing[i]
         IN /\ \A k \in DOMAIN docs \cup DOMAIN docs' :
                 k # <<p.site, p.id>> =>
                   Stored(docs', k[1], k[2]) = Stored(docs, k[1], k[2])
            /\ indices' \ indices \subseteq {p.site}
            /\ indices \subseteq indices']_vars

\* C36: the operation of a REMOVE event is never at a token request, a
\* content fetch, an index-exists check, an index create or a write, and no
\* step of it changes the set of indices.
C36_RemoveOnlyDeletes ==
  [][\A i \in DOMAIN processing' :
       processing'[i].action = "REMOVE" =>
         /\ processing'[i].pc \in {"delete", "pending", "fulfilled", "rejected"}
         /\ (i \in DOMAIN processing /\ processing'[i] # processing[i]) =>
              indices' = indices]_vars

\* C36 witness: a batch completed in which a delete was answered Not Found
\* and the index it named still does not exist.
C36_Witness ==
  /\ Called
  /\ \E i \in DOMAIN processing :
       /\ processing[i].action = "REMOVE"
       /\ processing[i].val = "NotFound"
       /\ processing[i].site \notin indices

\* The comma-separated (or space-separated) pieces of a string, read off the
\* positions of the separator.
Pieces(s, sep) ==
  {SubSeq(s, a, b) : <<a, b>> \in
     {ab \in (1..(Len(s) + 1)) \X (0..Len(s)) :
        /\ ab[2] >= ab[1] - 1
        /\ ab[1] = 1 \/ s[ab[1] - 1] = sep
        /\ ab[2] = Len(s) \/ s[ab[2] + 1] = sep
        /\ \A k \in ab[1]..ab[2] : s[k] # sep}}

\* C37: getSuggestions issues one query for each recognized name of the
\* comma-separated `types`, none for any other name, and exactly the six
\* per-type queries when `types` is the empty string or absent.
NamedIn(str, name) ==
  Cardinality({i \in DOMAIN str :
                 /\ str[i] = name
                 /\ i = 1 \/ str[i - 1] = ","
                 /\ i = Len(str) \/ str[i + 1] = ","})

Issued(name) ==
  Cardinality({i \in DOMAIN search.suggestions : search.suggestions[i].type = name})

C37_OneQueryPerRecognizedType ==
  search.pc \in {"wait", "fulfilled", "rejected"} =>
    /\ \A i \in DOMAIN search.suggestions : search.suggestions[i].type \in Recognized
    /\ \A name \in Recognized :
         Issued(name) = IF ~search.types.given \/ search.types.str = <<>>
                          THEN 1
                          ELSE NamedIn(search.types.str, name)

\* C37 witness: `types` was "movies,videos" and the one query, for videos,
\* was issued.
C37_Witness ==
  /\ search.pc = "wait"
  /\ search.types = Given(<<"movies", ",", "videos">>)
  /\ Len(search.suggestions) = 1
  /\ search.suggestions[1].type = "videos"

\* C38: getSuggestions fulfils with the hits' data of the queries
\* concatenated in the order the queries were issued, whatever the order they
\* completed in; and once a query has failed it has rejected, with none of
\* the results.
RECURSIVE Offset(_)
Offset(i) ==
  IF i = 1 THEN 0 ELSE Offset(i - 1) + Len(Hits(search.suggestions[i - 1].type))

C38_ResultsInIssueOrder ==
  /\ search.pc = "fulfilled" =>
       /\ search.error = "-"
       /\ Len(search.response) = Offset(Len(search.suggestions) + 1)
       /\ \A i \in DOMAIN search.suggestions :
            \A k \in DOMAIN Hits(search.suggestions[i].type) :
              search.response[Offset(i) + k] = Hits(search.suggestions[i].type)[k]
  /\ (search.pc # "-" /\ \E i \in DOMAIN search.suggestions :
                            search.suggestions[i].pc = "rejected") =>
       /\ search.pc = "rejected"
       /\ search.error = "Error"
       /\ search.response = <<>>

\* C38 witness: the videos and articles queries were issued in this order,
\* completed in the opposite order, and getSuggestions fulfilled.
C38_Witness ==
  /\ search.pc = "fulfilled"
  /\ search.types = Given(<<"videos", ",", "articles">>)
  /\ search.done = <<2, 1>>
  /\ search.response = <<"v1", "v2", "a1">>

\* C39: the title suggestions are, for every word from the second on that is
\* not a skip word, the rest of the title from that word, in the order of
\* the positions, and then the full title as the last element.
WordAt(title, j) ==
  LET ends == {k \in j..Len(title) : title[k] = " "}
      e    == IF ends = {} THEN Len(title) + 1
              ELSE CHOOSE k \in ends : \A m \in ends : k <= m
  IN SubSeq(title, j, e - 1)

Starts(title, skipEnv) ==
  {j \in 2..(Len(title) + 1) :
     /\ title[j - 1] = " "
     /\ WordAt(title, j) \notin Pieces(skipEnv, ",")}

C39_TitleSuggestions ==
  (content.kind = "title" /\ built # NotBuilt) =>
    LET title  == content.title
        starts == Starts(title, content.skip)
        n      == Cardinality(starts)
    IN /\ built.state = "built"
       /\ Len(built.doc) = n + 1
       /\ built.doc[n + 1] = title
       /\ \A k \in 1..n :
            LET j == CHOOSE j \in starts : Cardinality({m \in starts : m < j}) = k - 1
            IN built.doc[k] = SubSeq(title, j, Len(title))

\* C39 witness: the suggestions of "Black the Black Parade" with the skip
\* word "the" were defined: "Black Parade", "Parade" and the title.
C39_Witness ==
  /\ content.kind = "title"
  /\ content.title = <<"Black", " ", "the", " ", "Black", " ", "Parade">>
  /\ content.skip = <<"the">>
  /\ built # NotBuilt
  /\ built.doc = <<<<"Black", " ", "Parade">>, <<"Parade">>, content.title>>

====
